---- MODULE Spec2Model ----
(***************************************************************************)
(* A model of the assertion engine of deliveroo/assert-go (assert.go).     *)
(*                                                                         *)
(* The state is the process-wide default option list and the record of the *)
(* last assertion call: its arguments, what it reported to the testingT    *)
(* reporter, what it returned and whether a panic left the call.           *)
(***************************************************************************)
EXTENDS Integers, Sequences, FiniteSets, TLC

\* ------------------------------------------------------------------------
\* Bounds
\* ------------------------------------------------------------------------
MaxLen == 2      \* longest slice passed to Contains / SliceContainsAllOf
MaxReg == 2      \* options registered on top of the initial default list
MaxStack == 4    \* nested calls of isEmpty that fit on the goroutine stack

\* ------------------------------------------------------------------------
\* Values (interface{} arguments)
\* ------------------------------------------------------------------------
NilV == [k |-> "nil"]
IntV(n) == [k |-> "int", n |-> n]
BoolV(b) == [k |-> "bool", b |-> b]
\* float64; NaN is the float for which == is not reflexive
FloatV(n) == [k |-> "float", nan |-> FALSE, n |-> n]
NaNV == [k |-> "float", nan |-> TRUE, n |-> 0]
\* a string is a sequence of lexemes
StrV(s) == [k |-> "string", s |-> s]
\* a non-nil error whose Error() is msg (errors.New / fmt.Errorf)
ErrV(msg) == [k |-> "error", msg |-> msg]
\* a struct value: with or without unexported fields, zero-valued or not
StructV(unexported, zero) == [k |-> "struct", unexported |-> unexported, zero |-> zero]
EmptyStruct == StructV(FALSE, TRUE)
PrivV == StructV(TRUE, FALSE)
\* struct { ID int `json:"id"` }{n}
IDStruct(n) == [k |-> "idstruct", id |-> n]
\* a pointer: nil, or to elem
NilPtrV == [k |-> "ptr", nilp |-> TRUE, elem |-> NilV]
PtrV(elem) == [k |-> "ptr", nilp |-> FALSE, elem |-> elem]
\* a pointer that points to itself: var x interface{}; x = &x
SelfPtrV == [k |-> "ptr", nilp |-> FALSE, elem |-> [k |-> "self"]]
\* value.Elem().Interface(): what a non-nil pointer points to
Elem(v) == IF v.elem.k = "self" THEN v ELSE v.elem
\* a slice: nil, or with elements elems
NilSliceV == [k |-> "slice", nilp |-> TRUE, elems |-> <<>>]
SliceV(elems) == [k |-> "slice", nilp |-> FALSE, elems |-> elems]
\* a map[string]T: nil, or made, f mapping the keys to the values
NilMapV == [k |-> "map", nilp |-> TRUE, f |-> <<>>]
MapV(f) == [k |-> "map", nilp |-> FALSE, f |-> f]
EmptyMap == MapV(<<>>)
IDMap(v) == MapV([key \in {"id"} |-> v])
\* a chan int: nil, or made, with len elements queued in its buffer
ChanV(nilp, len) == [k |-> "chan", nilp |-> nilp, len |-> len]
\* a func(): nil or not
FuncV(nilp) == [k |-> "func", nilp |-> nilp]

Chars == {"a", "b"}
Strings == {<<>>} \cup {<<c>> : c \in Chars} \cup {<<c, d>> : c \in Chars, d \in Chars}
Msgs == {<<"a">>, <<"b">>, <<"a", "b">>}

\* the elements of the slices
Elems == {IntV(1), IntV(2), IntV(3)}
Ints == {IntV(0)} \cup Elems
Bools == {BoolV(b) : b \in BOOLEAN}
Errs == {ErrV(m) : m \in Msgs}
Strs == {StrV(s) : s \in Strings}
Ptrs == {NilPtrV, PtrV(EmptyStruct)}

SeqsUpTo(S, n) == UNION {[1..m -> S] : m \in 0..n}

\* []int slices of bounded length
Slices == {NilSliceV} \cup {SliceV(s) : s \in SeqsUpTo(Elems, MaxLen)}

Scalars == {NilV, NaNV, PrivV} \cup Ints \cup Bools \cup Errs \cup Strs \cup Ptrs

\* ------------------------------------------------------------------------
\* Options (cmp.Option)
\* ------------------------------------------------------------------------
\* "errCmp"   the initial default: errors compared by message  (assert.go:50)
\* "cmpTrue"  cmp.Comparer(func(int, int) bool { return true })
\* "cmpFalse" cmp.Comparer(func(int, int) bool { return false })
\* "cmpPanic" cmp.Comparer(func(int, int) bool { panic(...) })
IntComparers == {"cmpTrue", "cmpFalse", "cmpPanic"}
InitialDefaultOpts == <<"errCmp">>

\* per-call option lists: none, or one comparer
CallOpts == {<<>>} \cup {<<c>> : c \in IntComparers}

\* "cmpNear"  cmp.Comparer(func(a, b int) bool { return a-b <= 1 && b-a <= 1 }),
\* a symmetric rule that is not transitive; SliceContainsAllOf is also called
\* with it
ContainsAllOpts == CallOpts \cup {<<"cmpNear">>}

\* ------------------------------------------------------------------------
\* cmp.Equal / cmp.Diff as the assertions use them
\* ------------------------------------------------------------------------
\* An option applies to a pair of values when its type filter accepts their
\* common type: the error comparer takes two errors, an int comparer two ints.
Applies(o, x, y) ==
    IF o = "errCmp" THEN x.k = "error" /\ y.k = "error"
    ELSE x.k = "int" /\ y.k = "int"

\* The result of the one applicable comparer.
ComparerResult(o, x, y) ==
    CASE o = "errCmp"   -> IF x.msg = y.msg THEN "eq" ELSE "ne"
      [] o = "cmpTrue"  -> "eq"
      [] o = "cmpFalse" -> "ne"
      [] o = "cmpPanic" -> "panic: comparer"
      [] o = "cmpNear"  -> IF x.n - y.n <= 1 /\ y.n - x.n <= 1 THEN "eq" ELSE "ne"

\* Comparison of two struct values.
StructCompare(x, y) ==
    IF x.unexported \/ y.unexported THEN "panic: unexported field"
    ELSE IF x = y THEN "eq" ELSE "ne"

\* Comparison of two values of the same type when no option applies; map and
\* slice elements here are JSON scalars, to which no option applies.
Structural(x, y) ==
    CASE x.k = "nil"    -> "eq"
      [] x.k = "int"    -> IF x.n = y.n THEN "eq" ELSE "ne"
      [] x.k = "bool"   -> IF x.b = y.b THEN "eq" ELSE "ne"
      [] x.k = "string" -> IF x.s = y.s THEN "eq" ELSE "ne"
      [] x.k = "float"  -> IF ~x.nan /\ ~y.nan /\ x.n = y.n THEN "eq" ELSE "ne"
      [] x.k = "error"  -> "panic: unexported field" \* *errors.errorString
      [] x.k = "struct" -> StructCompare(x, y)
      [] x.k = "idstruct" -> IF x.id = y.id THEN "eq" ELSE "ne"
      [] x.k = "ptr"    -> IF x.nilp \/ y.nilp
                           THEN (IF x.nilp /\ y.nilp THEN "eq" ELSE "ne")
                           ELSE StructCompare(x.elem, y.elem)
      [] x.k = "map"    -> IF x.nilp = y.nilp /\ x.f = y.f THEN "eq" ELSE "ne"

\* "eq", "ne", or "panic: ..." when the comparison panics.
CmpOutcome(x, y, opts) ==
    IF x.k # y.k THEN "ne"
    ELSE LET app == SelectSeq(opts, LAMBDA o : Applies(o, x, y))
         IN  IF Len(app) > 1 THEN "panic: ambiguous set of applicable options"
             ELSE IF Len(app) = 1 THEN ComparerResult(app[1], x, y)
             ELSE Structural(x, y)

IsPanic(c) == c \notin {"eq", "ne"}

\* cmp.Diff(x, y, opts...) != "" ; the text itself is carried as the operands.
DiffNonEmpty(c) == c = "ne"

\* ------------------------------------------------------------------------
\* The reporter and the label resolver
\* ------------------------------------------------------------------------
\* What the caller's source file gives getArg's closure:
\*   "found"      the argument's text is recovered
\*   "notfound"   no matching call expression on the line: ""
\*   "unreadable" os.Open / ReadAll / ParseFile fails: the closure panics
Sources == {"found", "notfound", "unreadable"}
ExprText == "expr"

getArg(src) == IF src = "found" THEN ExprText ELSE ""
getArgPanics(src) == src = "unreadable"

\* A report: the message text as printed (fmt.Sprint of the arguments), with
\* the values a diff or a %q / %#v verb renders.
Msg(text, vals) == [text |-> text, vals |-> vals]

\* expr + sep + msg when expr is not empty
WithLabel(expr, sep, text) == IF expr # "" THEN <<expr, sep>> \o text ELSE text

\* The text cmp.Diff returns for two values that differ, as lexemes: the
\* report is indented and ends with a newline.
DiffText == <<"  ", "<diff>", "\n">>

Whitespace == {" ", "  ", "\t", "\n"}

\* strings.TrimSpace
RECURSIVE TrimSpace(_)
TrimSpace(s) ==
    IF s = <<>> THEN s
    ELSE IF Head(s) \in Whitespace THEN TrimSpace(Tail(s))
    ELSE IF s[Len(s)] \in Whitespace THEN TrimSpace(SubSeq(s, 1, Len(s) - 1))
    ELSE s

\* formatDiff putting the label and its space in front whatever the label
formatDiff_LabelAlways(expr, prefix, vals) ==
    Msg(<<expr, " ", prefix>> \o TrimSpace(DiffText), vals)

formatDiff(expr, prefix, vals) ==
    Msg(WithLabel(expr, " ", <<prefix>> \o TrimSpace(DiffText)), vals)

\* the outcome of one call; used: the option lists that the comparisons and
\* the final diff of a search through a slice were given, in order; after:
\* the caller's got and want as a search through them leaves them
Res(ret, errs, fatals, panic, resolved) ==
    [ret |-> ret, errs |-> errs, fatals |-> fatals, panic |-> panic,
     resolved |-> resolved, used |-> <<>>, after |-> <<>>]

Panicked(desc, resolved) == Res("none", <<>>, <<>>, desc, resolved)
Passed(resolved) == Res("true", <<>>, <<>>, "", resolved)
Failed(msg, resolved) == Res("false", <<msg>>, <<>>, "", resolved)

\* ------------------------------------------------------------------------
\* assertEqual / assertNotEqual
\* ------------------------------------------------------------------------
\* exprKind "getArg": expr is getArg(1)'s closure; "path": JSONPath's closure
\* returning the path, which reads no file.
\* assertEqual whose recover swallows the panic without reporting it
assertEqual_SilentRecover(exprKind, exprText, src, got, want, opts, defaults) ==
    LET o == opts \o defaults
        c == CmpOutcome(got, want, o)
    IN  IF IsPanic(c)
        THEN Res("false", <<>>, <<>>, "", FALSE)
        ELSE IF DiffNonEmpty(c)
        THEN IF exprKind = "getArg"
             THEN IF getArgPanics(src)
                  THEN Res("false", <<>>, <<>>, "", TRUE)
                  ELSE Failed(formatDiff(getArg(src), "(-got +want): ", <<got, want>>), TRUE)
             ELSE Failed(formatDiff(exprText, "(-got +want): ", <<got, want>>), FALSE)
        ELSE Passed(FALSE)

assertEqual(exprKind, exprText, src, got, want, opts, defaults) ==
    LET o == opts \o defaults
        c == CmpOutcome(got, want, o)
    IN  IF IsPanic(c)
        THEN Failed(Msg(<<"diff error:", c>>, <<>>), FALSE)
        ELSE IF DiffNonEmpty(c)
        THEN IF exprKind = "getArg"
             THEN IF getArgPanics(src)
                  THEN Failed(Msg(<<"diff error:", "panic: label">>, <<>>), TRUE)
                  ELSE Failed(formatDiff(getArg(src), "(-got +want): ", <<got, want>>), TRUE)
             ELSE Failed(formatDiff(exprText, "(-got +want): ", <<got, want>>), FALSE)
        ELSE Passed(FALSE)

\* assertNotEqual comparing under the per-call options alone
assertNotEqual_NoDefaults(src, got, notWant, opts, defaults) ==
    LET c == CmpOutcome(got, notWant, opts)
    IN  IF IsPanic(c)
        THEN Failed(Msg(<<"diff error:", c>>, <<>>), FALSE)
        ELSE IF ~DiffNonEmpty(c)
        THEN IF getArgPanics(src)
             THEN Failed(Msg(<<"diff error:", "panic: label">>, <<>>), TRUE)
             ELSE Failed(Msg(WithLabel(getArg(src), ": ", <<"should not equal ", "<value>">>),
                             <<notWant>>), TRUE)
        ELSE Passed(FALSE)

assertNotEqual(src, got, notWant, opts, defaults) ==
    LET o == opts \o defaults
        c == CmpOutcome(got, notWant, o)
    IN  IF IsPanic(c)
        THEN Failed(Msg(<<"diff error:", c>>, <<>>), FALSE)
        ELSE IF ~DiffNonEmpty(c)
        THEN IF getArgPanics(src)
             THEN Failed(Msg(<<"diff error:", "panic: label">>, <<>>), TRUE)
             ELSE Failed(Msg(WithLabel(getArg(src), ": ", <<"should not equal ", "<value>">>),
                             <<notWant>>), TRUE)
        ELSE Passed(FALSE)

\* Equal comparing under the per-call options alone
Equal_NoDefaults(src, got, want, opts, defaults) ==
    assertEqual("getArg", "", src, got, want, opts, <<>>)

Equal(src, got, want, opts, defaults) ==
    assertEqual("getArg", "", src, got, want, opts, defaults)

NotEqual(src, got, want, opts, defaults) ==
    assertNotEqual(src, got, want, opts, defaults)

True(src, got, defaults) ==
    assertEqual("getArg", "", src, got, BoolV(TRUE), <<>>, defaults)

False(src, got, defaults) ==
    assertEqual("getArg", "", src, got, BoolV(FALSE), <<>>, defaults)

\* ------------------------------------------------------------------------
\* Must
\* ------------------------------------------------------------------------
\* Must reporting through Error, with the label the other assertions add
Must_ViaError(err) ==
    IF err # NilV
    THEN Res("none", <<Msg(<<ExprText, ": ", "<error>">>, <<err>>)>>, <<>>, "", TRUE)
    ELSE Res("none", <<>>, <<>>, "", FALSE)

Must(err) ==
    IF err # NilV
    THEN Res("none", <<>>, <<Msg(<<"<error>">>, <<err>>)>>, "", FALSE)
    ELSE Res("none", <<>>, <<>>, "", FALSE)

\* ------------------------------------------------------------------------
\* Contains
\* ------------------------------------------------------------------------
\* castInterfaceToSlice handing out the caller's own array
castInterfaceToSlice_Alias(elems) == [alias |-> TRUE, elems |-> elems]

\* castInterfaceToSlice: a new array (make) filled with the elements; alias
\* tells whether writes to the result reach the caller's array
castInterfaceToSlice(elems) == [alias |-> FALSE, elems |-> elems]

\* strings.Contains
IsSubstr(sub, str) ==
    \E i \in 0..(Len(str) - Len(sub)) : SubSeq(str, i + 1, i + Len(sub)) = sub

\* The loop of sliceContains from index i on, entered with the option list
\* opts: each iteration first appends the defaults to opts.
RECURSIVE sliceContainsLoop(_, _, _, _, _, _)
sliceContainsLoop(got, want, expr, i, opts, defaults) ==
    IF i > Len(got)
    THEN [Failed(formatDiff(expr, "does not contain: ", <<want>>), TRUE)
            EXCEPT !.used = <<opts>>]
    ELSE LET o == opts \o defaults
             c == CmpOutcome(got[i], want, o)
         IN  IF IsPanic(c) THEN [Panicked(c, TRUE) EXCEPT !.used = <<o>>]
             ELSE IF c = "eq" THEN [Passed(TRUE) EXCEPT !.used = <<o>>]
             ELSE LET r == sliceContainsLoop(got, want, expr, i + 1, o, defaults)
                  IN  [r EXCEPT !.used = <<o>> \o r.used]

sliceContains(got, want, expr, opts, defaults) ==
    sliceContainsLoop(got, want, expr, 1, opts, defaults)

\* sliceContains only reads the array it is given: got and want are after the
\* call what they were
Contains(src, got, want, opts, defaults) ==
    LET r ==
    CASE got.k = "nil" -> Panicked("panic: nil pointer dereference", FALSE)
      [] got.k = "string" ->
            IF want.k # "string"
            THEN Panicked("panic: interface conversion", FALSE)
            ELSE IF ~IsSubstr(want.s, got.s)
            THEN IF getArgPanics(src) THEN Panicked("panic: label", TRUE)
                 ELSE Failed(Msg(WithLabel(getArg(src), " ",
                                     <<"(", "<got>", ") does not contain: ", "<want>">>),
                                 <<got, want>>), TRUE)
            ELSE Passed(FALSE)
      [] got.k = "slice" ->
            IF getArgPanics(src) THEN Panicked("panic: label", TRUE)
            ELSE sliceContains(castInterfaceToSlice(got.elems).elems, want, getArg(src),
                               opts, defaults)
      [] OTHER ->
            IF getArgPanics(src) THEN Panicked("panic: label", TRUE)
            ELSE Failed(Msg(WithLabel(getArg(src), " ",
                                <<"has unsupported type for Contains: ", got.k>>),
                            <<>>), TRUE)
    IN  [r EXCEPT !.after = <<got, want>>]

\* ------------------------------------------------------------------------
\* SliceContainsAllOf
\* ------------------------------------------------------------------------
\* got with its i-th element removed: append(got[:i], got[i+1:]...)
RemoveAt(got, i) == SubSeq(got, 1, i - 1) \o SubSeq(got, i + 1, Len(got))

\* firstEqual taking the last equal element instead of the first
firstEqual_Last(got, w, i, opts) ==
    LET eqs == {n \in i..Len(got) : CmpOutcome(got[n], w, opts) = "eq"}
        pan == {n \in i..Len(got) : IsPanic(CmpOutcome(got[n], w, opts))}
    IN  IF pan # {}
        THEN [p |-> CmpOutcome(got[CHOOSE n \in pan : TRUE], w, opts), idx |-> 0]
        ELSE IF eqs = {} THEN [p |-> "", idx |-> 0]
        ELSE [p |-> "", idx |-> CHOOSE n \in eqs : \A m \in eqs : m <= n]

\* index of the first element of got equal to w, 0 when there is none, or the
\* panic of the first comparison that panics before one
RECURSIVE firstEqual(_, _, _, _)
firstEqual(got, w, i, opts) ==
    IF i > Len(got) THEN [p |-> "", idx |-> 0]
    ELSE LET c == CmpOutcome(got[i], w, opts)
         IN  IF IsPanic(c) THEN [p |-> c, idx |-> 0]
             ELSE IF c = "eq" THEN [p |-> "", idx |-> i]
             ELSE firstEqual(got, w, i + 1, opts)

\* sliceContainsAllOf that leaves a matched element of got in place
RECURSIVE sliceContainsAllOf_NoRemove(_, _, _, _)
sliceContainsAllOf_NoRemove(got, want, missing, opts) ==
    IF Len(want) = 0
    THEN [p |-> "panic: index out of range", missing |-> missing, arr |-> got]
    ELSE LET f == firstEqual(got, want[1], 1, opts)
         IN  IF f.p # "" THEN [p |-> f.p, missing |-> missing, arr |-> got]
             ELSE IF f.idx # 0
             THEN IF Len(want) > 1
                  THEN sliceContainsAllOf_NoRemove(got, Tail(want), missing, opts)
                  ELSE [p |-> "", missing |-> missing, arr |-> got]
             ELSE IF Len(want) > 1
                  THEN sliceContainsAllOf_NoRemove(got, Tail(want),
                                                   Append(missing, want[1]), opts)
                  ELSE [p |-> "", missing |-> Append(missing, want[1]), arr |-> got]

\* [p |-> panic or "", missing |-> the missing list, arr |-> the array of got
\* as the call leaves it]. append(got[:i], got[i+1:]...) moves the elements
\* after i one place down inside the array of got: the slice passed on is one
\* shorter and the array keeps its old last element behind it.
RECURSIVE sliceContainsAllOf(_, _, _, _)
sliceContainsAllOf(got, want, missing, opts) ==
    IF Len(want) = 0
    THEN [p |-> "panic: index out of range", missing |-> missing, arr |-> got]  \* want[0]
    ELSE LET f == firstEqual(got, want[1], 1, opts)
         IN  IF f.p # "" THEN [p |-> f.p, missing |-> missing, arr |-> got]
             ELSE IF f.idx # 0
             THEN IF Len(want) > 1
                  THEN LET r == sliceContainsAllOf(RemoveAt(got, f.idx), Tail(want),
                                                   missing, opts)
                       IN  [r EXCEPT !.arr = r.arr \o <<got[Len(got)]>>]
                  ELSE [p |-> "", missing |-> missing, arr |-> got]
             ELSE IF Len(want) > 1
                  THEN sliceContainsAllOf(got, Tail(want), Append(missing, want[1]), opts)
                  ELSE [p |-> "", missing |-> Append(missing, want[1]), arr |-> got]

\* got and want are copied by castInterfaceToSlice; the search writes to the
\* array of its got and only reads want
SliceContainsAllOf(src, got, want, opts, defaults) ==
    LET ii == castInterfaceToSlice(got.elems)
        m == sliceContainsAllOf(ii.elems, castInterfaceToSlice(want.elems).elems,
                                <<>>, opts)
        r == IF got.k = "nil" \/ (got.k = "slice" /\ want.k = "nil")
             THEN Panicked("panic: nil pointer dereference", FALSE)
             ELSE IF got.k # "slice" \/ want.k # "slice"
             THEN Failed(Msg(<<"SliceContainsAllOf requires slice">>, <<>>), FALSE)
             ELSE IF m.p # "" THEN Panicked(m.p, FALSE)
             ELSE IF Len(m.missing) > 0
             THEN IF getArgPanics(src) THEN Panicked("panic: label", TRUE)
                  ELSE Failed(formatDiff(getArg(src), "does not contain: ", m.missing), TRUE)
             ELSE Passed(FALSE)
        gotAfter == IF got.k = "slice" /\ want.k = "slice" /\ ii.alias
                    THEN [got EXCEPT !.elems = m.arr]
                    ELSE got
    IN  [r EXCEPT !.after = <<gotAfter, want>>]

\* ------------------------------------------------------------------------
\* JSON
\* ------------------------------------------------------------------------
\* Raw JSON texts, as lexemes: {}   {"id":1}   and the malformed  {
RawEmptyObject == <<"{", "}">>
RawIDObject == <<"{", "\"id\"", ":", "1", "}">>
RawMalformed == <<"{">>
RawStrings == {RawEmptyObject, RawIDObject, RawMalformed}

\* the values given to JSONEqual and JSONPath; among them *string values,
\* whose dynamic type is not string
JSONInputs == {NilV, NaNV, PrivV, IntV(1), IntV(2), BoolV(TRUE), StrV(<<"a">>),
               IDStruct(1), IDStruct(2), IDMap(IntV(1)), IDMap(FloatV(1)),
               PtrV(StrV(RawEmptyObject)), PtrV(StrV(RawMalformed))}
              \cup {StrV(r) : r \in RawStrings}

JSONPanic == [k |-> "panic"]

\* the number lexemes and the object keys of the JSON texts
Digits == {ToString(n) : n \in 0..9}
Keys == {"id"}
QuotedKey(key) == "\"" \o key \o "\""

\* json.Marshal(v): the JSON text, or an error
MarshalError == [err |-> TRUE, text |-> <<>>]
Text(t) == [err |-> FALSE, text |-> t]

RECURSIVE Marshal(_)
Marshal(v) ==
    CASE v.k = "nil"      -> Text(<<"null">>)
      [] v.k = "bool"     -> Text(<<IF v.b THEN "true" ELSE "false">>)
      [] v.k = "int"      -> Text(<<ToString(v.n)>>)
      [] v.k = "float"    -> IF v.nan THEN MarshalError ELSE Text(<<ToString(v.n)>>)
      [] v.k = "string"   -> Text(<<"\"">> \o v.s \o <<"\"">>)
      [] v.k = "error"    -> Text(<<"{", "}">>)     \* no exported field
      [] v.k = "struct"   -> Text(<<"{", "}">>)     \* no exported field
      [] v.k = "idstruct" -> Text(<<"{", QuotedKey("id"), ":", ToString(v.id), "}">>)
      [] v.k = "ptr"      -> IF v.nilp THEN Text(<<"null">>) ELSE Marshal(v.elem)
      [] v.k = "map"      ->
            IF v.nilp THEN Text(<<"null">>)
            ELSE IF DOMAIN v.f = {} THEN Text(<<"{", "}">>)
            ELSE LET key == CHOOSE x \in DOMAIN v.f : TRUE    \* maps of one key
                     m == Marshal(v.f[key])
                 IN  IF m.err THEN m
                     ELSE Text(<<"{", QuotedKey(key), ":">> \o m.text \o <<"}">>)

\* json.Unmarshal(text, &r) into an interface{}: nil, bool, float64, string or
\* map[string]interface{}, or JSONPanic for a syntax error
RECURSIVE Unmarshal(_)
Unmarshal(t) ==
    IF t = <<"null">> THEN NilV
    ELSE IF t = <<"true">> THEN BoolV(TRUE)
    ELSE IF t = <<"false">> THEN BoolV(FALSE)
    ELSE IF Len(t) = 1 /\ t[1] \in Digits
    THEN FloatV(CHOOSE n \in 0..9 : ToString(n) = t[1])
    ELSE IF Len(t) >= 2 /\ t[1] = "\"" /\ t[Len(t)] = "\""
    THEN StrV(SubSeq(t, 2, Len(t) - 1))
    ELSE IF t = <<"{", "}">> THEN EmptyMap
    ELSE IF Len(t) >= 5 /\ t[1] = "{" /\ t[3] = ":" /\ t[Len(t)] = "}"
            /\ \E key \in Keys : t[2] = QuotedKey(key)
    THEN LET val == Unmarshal(SubSeq(t, 4, Len(t) - 1))
             key == CHOOSE x \in Keys : t[2] = QuotedKey(x)
         IN  IF val = JSONPanic THEN JSONPanic
             ELSE MapV([x \in {key} |-> val])
    ELSE JSONPanic

\* toJSON returning the marshalled text instead of unmarshalling it
toJSON_MarshalOnly(v) ==
    IF v.k = "string" /\ Len(v.s) > 0 /\ v.s[1] \in {"{", "["}
    THEN Unmarshal(v.s)
    ELSE LET b == Marshal(v)
         IN  IF b.err THEN JSONPanic ELSE StrV(b.text)

\* toJSON: the normalized value, or JSONPanic when toJSON panics
toJSON(v) ==
    IF v.k = "string" /\ Len(v.s) > 0 /\ v.s[1] \in {"{", "["}
    THEN Unmarshal(v.s)
    ELSE LET b == Marshal(v)
         IN  IF b.err THEN JSONPanic ELSE Unmarshal(b.text)

JSONEqual(src, got, want, opts, defaults) ==
    IF toJSON(got) = JSONPanic \/ toJSON(want) = JSONPanic
    THEN Panicked("panic: json", FALSE)
    ELSE assertEqual("getArg", "", src, toJSON(got), toJSON(want), opts, defaults)

\* paths, as lexemes
Paths == {<<"id">>, <<"$.", "id">>, <<"missing">>, <<"$.", "missing">>}

\* strings.HasPrefix(path, "$.") ; "$." + path
normalizePath(path) == IF path[1] = "$." THEN path ELSE <<"$.">> \o path

\* the path as text
PathText(p) == p[1] \o p[2]

\* jsonpath.JsonPathLookup(subject, path) for a one-key path
JsonPathLookup(subject, path) ==
    LET key == path[2]
    IN  IF subject.k = "nil" THEN [err |-> "get attribute from null object", val |-> NilV]
        ELSE IF subject.k # "map" THEN [err |-> "object is not map", val |-> NilV]
        ELSE IF key \notin DOMAIN subject.f
        THEN [err |-> "key error: " \o key \o " not found in object", val |-> NilV]
        ELSE [err |-> "", val |-> subject.f[key]]

\* JSONPath comparing the value found with want as given, not normalized
JSONPath_RawWant(subject, path, want, opts, defaults) ==
    IF toJSON(subject) = JSONPanic \/ toJSON(want) = JSONPanic
    THEN Panicked("panic: json", FALSE)
    ELSE LET p == normalizePath(path)
             l == JsonPathLookup(toJSON(subject), p)
         IN  IF l.err # ""
             THEN Failed(Msg(<<l.err>>, <<>>), FALSE)
             ELSE assertEqual("path", PathText(p), "found", l.val, want, opts, defaults)

JSONPath(subject, path, want, opts, defaults) ==
    IF toJSON(subject) = JSONPanic \/ toJSON(want) = JSONPanic
    THEN Panicked("panic: json", FALSE)
    ELSE LET p == normalizePath(path)
             l == JsonPathLookup(toJSON(subject), p)
         IN  IF l.err # ""
             THEN Failed(Msg(<<l.err>>, <<>>), FALSE)
             ELSE assertEqual("path", PathText(p), "found", l.val, toJSON(want), opts, defaults)

\* ------------------------------------------------------------------------
\* Match, ErrorContains
\* ------------------------------------------------------------------------
\* patterns: literals over Chars, and patterns with an unclosed "("
Patterns == Strings \cup {<<"(">>, <<"a", "(">>}

\* regexp.MatchString(want, got): "error", "match" or "nomatch"
MatchString(want, got) ==
    IF \E i \in 1..Len(want) : want[i] = "(" THEN "error"
    ELSE IF IsSubstr(want, got) THEN "match" ELSE "nomatch"

Match(src, got, want) ==
    LET m == MatchString(want.s, got.s)
    IN  IF m = "error"
        THEN Failed(Msg(<<"regexp error: ", "<err>">>, <<want>>), FALSE)
        ELSE IF m = "nomatch"
        THEN IF getArgPanics(src) THEN Panicked("panic: label", TRUE)
             ELSE Failed(Msg(WithLabel(getArg(src), ": ",
                                 <<"got ", "<got>", ", which doesn't match ", "<want>">>),
                             <<got, want>>), TRUE)
        ELSE Passed(FALSE)

ErrorContains(src, got, want) ==
    IF got = NilV
    THEN IF getArgPanics(src) THEN Panicked("panic: label", TRUE)
         ELSE Failed(Msg(WithLabel(getArg(src), ": ", <<"got <nil>, want not nil">>),
                         <<>>), TRUE)
    ELSE IF ~IsSubstr(want.s, got.msg)
    THEN IF getArgPanics(src) THEN Panicked("panic: label", TRUE)
         ELSE Failed(Msg(WithLabel(getArg(src), ": ",
                             <<"got ", "<got>", ", which does not contain ", "<want>">>),
                         <<got, want>>), TRUE)
    ELSE Passed(FALSE)

\* ------------------------------------------------------------------------
\* Nil, NotNil, Empty, NotEmpty
\* ------------------------------------------------------------------------
\* isNil holding for the untyped nil alone
isNil_UntypedOnly(v) == v.k = "nil"

isNil(v) ==
    CASE v.k = "nil" -> TRUE
      [] v.k \in {"chan", "func", "map", "ptr", "slice"} -> v.nilp
      [] OTHER -> FALSE

\* isEmpty looking at a pointer alone, not at what it points to
isEmpty_NoRecursion(v) ==
    CASE v.k = "nil"    -> TRUE
      [] v.k = "slice"  -> Len(v.elems) = 0
      [] v.k = "string" -> Len(v.s) = 0
      [] v.k = "map"    -> DOMAIN v.f = {}
      [] v.k = "chan"   -> v.len = 0
      [] v.k = "func"   -> v.nilp
      [] v.k = "ptr"    -> v.nilp
      [] v.k = "error"  -> FALSE
      [] v.k = "int"    -> v.n = 0
      [] v.k = "bool"   -> ~v.b
      [] v.k = "float"  -> ~v.nan /\ v.n = 0
      [] v.k = "struct" -> v.zero
      [] v.k = "idstruct" -> v.id = 0

\* isEmpty entered as the depth-th nested call: "true", "false", or
\* "overflow" when the nesting outgrows the goroutine stack
RECURSIVE isEmptyAt(_, _)
isEmptyAt(v, depth) ==
    IF depth > MaxStack THEN "overflow"
    ELSE CASE v.k = "ptr" -> IF v.nilp THEN "true" ELSE isEmptyAt(Elem(v), depth + 1)
           [] OTHER ->
                IF CASE v.k = "nil"    -> TRUE
                     [] v.k = "slice"  -> Len(v.elems) = 0
                     [] v.k = "string" -> Len(v.s) = 0
                     [] v.k = "map"    -> DOMAIN v.f = {}
                     [] v.k = "chan"   -> v.len = 0
                     [] v.k = "func"   -> v.nilp            \* DeepEqual with the nil func
                     [] v.k = "error"  -> Len(v.msg) = 0    \* *errorString: its referent is zero
                     [] v.k = "int"    -> v.n = 0
                     [] v.k = "bool"   -> ~v.b
                     [] v.k = "float"  -> ~v.nan /\ v.n = 0
                     [] v.k = "struct" -> v.zero
                     [] v.k = "idstruct" -> v.id = 0
                THEN "true" ELSE "false"

isEmpty(v) == isEmptyAt(v, 1) = "true"

\* the recursion of isEmpty(v) does not end: the runtime stops the program
\* with "fatal error: stack overflow"
isEmptyOverflows(v) == isEmptyAt(v, 1) = "overflow"

Nil(src, got, defaults) ==
    IF isNil(got) THEN Passed(FALSE)
    ELSE assertEqual("getArg", "", src, got, NilV, <<>>, defaults)

NotNil(src, got) ==
    IF isNil(got)
    THEN IF getArgPanics(src) THEN Panicked("panic: label", TRUE)
         ELSE Failed(Msg(WithLabel(getArg(src), ": ", <<"got <nil>, want not nil">>),
                         <<>>), TRUE)
    ELSE Passed(FALSE)

Empty(src, got) ==
    IF isEmptyOverflows(got) THEN Panicked("fatal error: stack overflow", FALSE)
    ELSE IF ~isEmpty(got)
    THEN IF getArgPanics(src) THEN Panicked("panic: label", TRUE)
         ELSE Failed(Msg(WithLabel(getArg(src), ": ", <<"got ", "<got>", ", want empty">>),
                         <<got>>), TRUE)
    ELSE Passed(FALSE)

NotEmpty(src, got) ==
    IF isEmptyOverflows(got) THEN Panicked("fatal error: stack overflow", FALSE)
    ELSE IF isEmpty(got)
    THEN IF getArgPanics(src) THEN Panicked("panic: label", TRUE)
         ELSE Failed(Msg(WithLabel(getArg(src), ": ", <<"got ", "<got>", ", want not empty">>),
                         <<got>>), TRUE)
    ELSE Passed(FALSE)

\* ------------------------------------------------------------------------
\* RegisterOptions
\* ------------------------------------------------------------------------
\* registering in place of what was registered before
RegisterOptions_Replace(defaults, opts) == InitialDefaultOpts \o opts

\* registering in front of the list
RegisterOptions_Prepend(defaults, opts) == opts \o defaults

RegisterOptions(defaults, opts) == defaults \o opts

\* the option lists a RegisterOptions call passes
RegOpts == {<<c>> : c \in IntComparers}
           \cup {<<c, d>> : c \in IntComparers, d \in IntComparers}

\* ------------------------------------------------------------------------
\* State
\* ------------------------------------------------------------------------
VARIABLES
    defaultOpts,   \* var defaultOpts []cmp.Option, as a read of it gives it
    registered,    \* every option passed to RegisterOptions so far, in order
    call,          \* the last call: operation, arguments, outcome
    header,        \* the words of defaultOpts in memory: array pointed to, length
    thr,           \* the goroutines calling RegisterOptions: where each one is
    overlap        \* two RegisterOptions calls have been in progress together

vars == <<defaultOpts, registered, call, header, thr, overlap>>

\* the goroutines that call RegisterOptions concurrently
Threads == {"t1", "t2"}

\* the words of a slice header that the append reads and the assignment writes
Words == {"ptr", "len"}

Header(arr, len) == [arr |-> arr, len |-> len]

\* The slice a header denotes. A length word beyond the array pointed to (the
\* words of two different assignments) reads memory past the array: "junk".
View(h) == [i \in 1..h.len |-> IF i <= Len(h.arr) THEN h.arr[i] ELSE "junk"]

\* a goroutine outside RegisterOptions
ThreadIdle == [pc |-> "idle", opts |-> <<>>, ld |-> {}, st |-> {},
               snap |-> Header(<<>>, 0), new |-> <<>>]

NoRes == Res("none", <<>>, <<>>, "", FALSE)

Call(op, src, got, want, opts, path, res) ==
    [op |-> op, src |-> src, got |-> got, want |-> want, opts |-> opts,
     path |-> path, res |-> res]

\* no call made on the reporter yet
Idle == Call("idle", "found", NilV, NilV, <<>>, <<>>, NoRes)

Init ==
    /\ defaultOpts = InitialDefaultOpts
    /\ registered = <<>>
    /\ call = Idle
    /\ header = Header(InitialDefaultOpts, Len(InitialDefaultOpts))
    /\ thr = [t \in Threads |-> ThreadIdle]
    /\ overlap = FALSE

\* mt := &mockTestingT{} : the next assertion reports to a fresh reporter
NewReporter ==
    /\ call # Idle
    /\ call' = Idle
    /\ UNCHANGED <<defaultOpts, registered, header, thr, overlap>>

\* an assertion call on the fresh reporter: it reads defaultOpts and leaves it
\* alone
Asserted(c) ==
    /\ call' = c
    /\ UNCHANGED <<defaultOpts, registered, header, thr, overlap>>

DoRegisterOptions ==
    \E ro \in RegOpts :
        /\ Len(registered) + Len(ro) <= MaxReg
        /\ defaultOpts' = RegisterOptions(defaultOpts, ro)
        /\ registered' = registered \o ro
        /\ call' = Idle
        /\ header' = Header(defaultOpts', Len(defaultOpts'))
        /\ UNCHANGED <<thr, overlap>>

DoEqual ==
    /\ call = Idle
    /\ \E src \in Sources, got \in Scalars, want \in Scalars, opts \in CallOpts :
        Asserted(Call("Equal", src, got, want, opts, <<>>,
                      Equal(src, got, want, opts, defaultOpts)))

DoNotEqual ==
    /\ call = Idle
    /\ \E src \in Sources, got \in Scalars, want \in Scalars, opts \in CallOpts :
        Asserted(Call("NotEqual", src, got, want, opts, <<>>,
                      NotEqual(src, got, want, opts, defaultOpts)))

DoMust ==
    /\ call = Idle
    /\ \E err \in {NilV} \cup Errs :
        Asserted(Call("Must", "found", err, NilV, <<>>, <<>>, Must(err)))

\* got: a slice, a string, or a value of another kind; want: an element
ContainsGots == Slices \cup Strs \cup {NilV, EmptyMap, IntV(1)}
ContainsWants == Elems \cup {NilV, StrV(<<>>), StrV(<<"a">>), StrV(<<"b", "a">>)}

DoContains ==
    /\ call = Idle
    /\ \E src \in Sources, got \in ContainsGots, want \in ContainsWants, opts \in CallOpts :
        Asserted(Call("Contains", src, got, want, opts, <<>>,
                      Contains(src, got, want, opts, defaultOpts)))

ContainsAllArgs == Slices \cup {NilV, EmptyMap}

DoSliceContainsAllOf ==
    /\ call = Idle
    /\ \E src \in Sources, got \in ContainsAllArgs, want \in ContainsAllArgs,
       opts \in ContainsAllOpts :
        Asserted(Call("SliceContainsAllOf", src, got, want, opts, <<>>,
                      SliceContainsAllOf(src, got, want, opts, defaultOpts)))

DoJSONEqual ==
    /\ call = Idle
    /\ \E src \in Sources, got \in JSONInputs, want \in JSONInputs, opts \in CallOpts :
        Asserted(Call("JSONEqual", src, got, want, opts, <<>>,
                      JSONEqual(src, got, want, opts, defaultOpts)))

DoJSONPath ==
    /\ call = Idle
    /\ \E subject \in JSONInputs, path \in Paths, want \in JSONInputs, opts \in CallOpts :
        Asserted(Call("JSONPath", "found", subject, want, opts, path,
                      JSONPath(subject, path, want, opts, defaultOpts)))

DoTrue ==
    /\ call = Idle
    /\ \E src \in Sources, got \in Bools :
        Asserted(Call("True", src, got, NilV, <<>>, <<>>, True(src, got, defaultOpts)))

DoFalse ==
    /\ call = Idle
    /\ \E src \in Sources, got \in Bools :
        Asserted(Call("False", src, got, NilV, <<>>, <<>>, False(src, got, defaultOpts)))

DoMatch ==
    /\ call = Idle
    /\ \E src \in Sources, got \in Strs, want \in Patterns :
        Asserted(Call("Match", src, got, StrV(want), <<>>, <<>>,
                      Match(src, got, StrV(want))))

DoErrorContains ==
    /\ call = Idle
    /\ \E src \in Sources, got \in {NilV} \cup Errs, want \in Strs :
        Asserted(Call("ErrorContains", src, got, want, <<>>, <<>>,
                      ErrorContains(src, got, want)))

NilArgs == Scalars \cup {NilSliceV, SliceV(<<>>), SliceV(<<IntV(1)>>), EmptyMap,
                         IDMap(IntV(1)), EmptyStruct, NilMapV, IDStruct(0), IDStruct(1),
                         ChanV(TRUE, 0), ChanV(FALSE, 0), ChanV(FALSE, 1),
                         FuncV(TRUE), FuncV(FALSE), FloatV(0), FloatV(1),
                         PtrV(StrV(<<>>)), PtrV(IntV(0)), PtrV(IntV(1)),
                         PtrV(PtrV(EmptyStruct)), PtrV(NilPtrV),
                         SelfPtrV, PtrV(SelfPtrV)}

DoNil ==
    /\ call = Idle
    /\ \E src \in Sources, got \in NilArgs :
        Asserted(Call("Nil", src, got, NilV, <<>>, <<>>, Nil(src, got, defaultOpts)))

DoNotNil ==
    /\ call = Idle
    /\ \E src \in Sources, got \in NilArgs :
        Asserted(Call("NotNil", src, got, NilV, <<>>, <<>>, NotNil(src, got)))

DoEmpty ==
    /\ call = Idle
    /\ \E src \in Sources, got \in NilArgs :
        Asserted(Call("Empty", src, got, NilV, <<>>, <<>>, Empty(src, got)))

DoNotEmpty ==
    /\ call = Idle
    /\ \E src \in Sources, got \in NilArgs :
        Asserted(Call("NotEmpty", src, got, NilV, <<>>, <<>>, NotEmpty(src, got)))

Next ==
    \/ NewReporter
    \/ DoRegisterOptions
    \/ DoEqual
    \/ DoNotEqual
    \/ DoMust
    \/ DoContains
    \/ DoSliceContainsAllOf
    \/ DoJSONEqual
    \/ DoJSONPath
    \/ DoTrue
    \/ DoFalse
    \/ DoMatch
    \/ DoErrorContains
    \/ DoNil
    \/ DoNotNil
    \/ DoEmpty
    \/ DoNotEmpty

Spec == Init /\ [][Next]_vars

\* ------------------------------------------------------------------------
\* RegisterOptions called from several goroutines
\* ------------------------------------------------------------------------
\* defaultOpts = append(defaultOpts, opts...) takes no lock: it loads the
\* words of the header, appends to what they denote (the array is full, so
\* append copies to a new array), and stores the words of the new header.
\* The steps of two goroutines interleave freely, word by word.

InProgress(t) == thr[t].pc \notin {"idle", "done"}

\* goroutine t enters RegisterOptions(ro...)
RaceCall(t) ==
    /\ thr[t].pc = "idle"
    /\ \E ro \in RegOpts :
        /\ Len(registered) + Len(ro) <= MaxReg
        /\ thr' = [thr EXCEPT ![t] = [ThreadIdle EXCEPT !.pc = "load", !.opts = ro]]
        /\ registered' = registered \o ro
    /\ overlap' = (overlap \/ \E u \in Threads \ {t} : InProgress(u))
    /\ UNCHANGED <<defaultOpts, call, header>>

\* t loads one word of the header of defaultOpts
RaceLoad(t) ==
    /\ thr[t].pc = "load"
    /\ \E w \in Words \ thr[t].ld :
        LET snap == IF w = "ptr" THEN [thr[t].snap EXCEPT !.arr = header.arr]
                    ELSE [thr[t].snap EXCEPT !.len = header.len]
            ld == thr[t].ld \cup {w}
        IN  thr' = [thr EXCEPT ![t].snap = snap, ![t].ld = ld,
                               ![t].pc = IF ld = Words THEN "append" ELSE "load"]
    /\ UNCHANGED <<defaultOpts, registered, call, header, overlap>>

\* t appends its options to the slice it loaded
RaceAppend(t) ==
    /\ thr[t].pc = "append"
    /\ thr' = [thr EXCEPT ![t].new = RegisterOptions(View(thr[t].snap), thr[t].opts),
                           ![t].pc = "store"]
    /\ UNCHANGED <<defaultOpts, registered, call, header, overlap>>

\* t stores one word of the new header into defaultOpts
RaceStore(t) ==
    /\ thr[t].pc = "store"
    /\ \E w \in Words \ thr[t].st :
        LET st == thr[t].st \cup {w}
        IN  /\ header' = IF w = "ptr" THEN [header EXCEPT !.arr = thr[t].new]
                         ELSE [header EXCEPT !.len = Len(thr[t].new)]
            /\ thr' = [thr EXCEPT ![t].st = st,
                                   ![t].pc = IF st = Words THEN "done" ELSE "store"]
    /\ defaultOpts' = View(header')
    /\ UNCHANGED <<registered, call, overlap>>

NextRace ==
    \E t \in Threads :
        \/ RaceCall(t)
        \/ RaceLoad(t)
        \/ RaceAppend(t)
        \/ RaceStore(t)

SpecRace == Init /\ [][NextRace]_vars

\* ------------------------------------------------------------------------
\* Properties
\* ------------------------------------------------------------------------
res == call.res
Returned == res.panic = ""

BoolOps == {"Equal", "NotEqual", "JSONEqual", "JSONPath", "Contains",
            "SliceContainsAllOf", "True", "False", "Match", "Nil", "NotNil",
            "Empty", "NotEmpty", "ErrorContains"}

\* C1: a bool-returning assertion that returns has returned true iff it made
\* no report, and false iff it made exactly one Error report and no Fatal one.
C1_ReturnMatchesReports ==
    (call.op \in BoolOps /\ Returned) =>
        /\ res.ret \in {"true", "false"}
        /\ (res.ret = "true") <=> (Len(res.errs) = 0 /\ Len(res.fatals) = 0)
        /\ (res.ret = "false") <=> (Len(res.errs) = 1 /\ Len(res.fatals) = 0)

\* an Equal whose comparer panicked: recovered, reported once, false
C1_Witness ==
    /\ call.op = "Equal"
    /\ call.opts = <<"cmpPanic">>
    /\ res.ret = "false"
    /\ call.got = IntV(1) /\ call.want = IntV(2)
    /\ res.errs = <<Msg(<<"diff error:", "panic: comparer">>, <<>>)>>

\* C2: Must reports nothing for a nil error; for a non-nil error it makes
\* exactly one Fatal report, the error's rendering alone, and no Error report.
C2_MustFatalOnly ==
    call.op = "Must" =>
        /\ Returned
        /\ res.errs = <<>>
        /\ IF call.got = NilV
           THEN res.fatals = <<>>
           ELSE res.fatals = <<Msg(<<"<error>">>, <<call.got>>)>>

C2_Witness ==
    /\ call.op = "Must"
    /\ call.got = ErrV(<<"a">>)
    /\ Len(res.fatals) = 1

\* C3: the default option list is the initial list followed by every
\* registered option in registration order, after any sequence of
\* RegisterOptions calls and assertion calls.
C3_DefaultsAreInitialPlusRegistered ==
    defaultOpts = InitialDefaultOpts \o registered

\* two different options registered, then an assertion made
C3_Witness ==
    /\ Len(registered) = 2
    /\ registered[1] # registered[2]
    /\ call.op \in BoolOps

\* the default list after RegisterOptions(c) alone
RegisteredOnly(c) == defaultOpts = InitialDefaultOpts \o <<c>>

One == IntV(1)
Two == IntV(2)

\* C4: a registered comparer is used by every comparing assertion called
\* without per-call options: with an always-equal comparer registered,
\* Equal(1,2), Contains([1],2) and ContainsAll([1],[2]) succeed; with an
\* always-unequal one NotEqual(1,1) succeeds; the earlier defaults stay.
C4_RegisteredComparerUsed ==
    (call.opts = <<>> /\ call.src = "found") =>
        /\ (RegisteredOnly("cmpTrue") /\ call.op = "Equal"
               /\ call.got = One /\ call.want = Two) => res.ret = "true"
        /\ (RegisteredOnly("cmpTrue") /\ call.op = "Contains"
               /\ call.got = SliceV(<<One>>) /\ call.want = Two) => res.ret = "true"
        /\ (RegisteredOnly("cmpTrue") /\ call.op = "SliceContainsAllOf"
               /\ call.got = SliceV(<<One>>) /\ call.want = SliceV(<<Two>>))
              => res.ret = "true"
        /\ (RegisteredOnly("cmpFalse") /\ call.op = "NotEqual"
               /\ call.got = One /\ call.want = One) => res.ret = "true"
        /\ (registered # <<>> => defaultOpts[1] = "errCmp")

\* values whose comparison with themselves is not plain equality: a NaN, and
\* a struct with unexported fields (cmp panics on it)
SelfComparable(x) == x # NaNV /\ ~(x.k = "struct" /\ x.unexported)

NotEqualOfCall == NotEqual(call.src, call.got, call.want, call.opts, defaultOpts)

\* the comparison both Equal and NotEqual make on the arguments of the call
CallCmp == CmpOutcome(call.got, call.want, call.opts \o defaultOpts)

\* C6 as stated: for any pair and the same options exactly one of Equal and
\* NotEqual returns true.
C6_ExactlyOneOfEqualNotEqual ==
    call.op = "Equal" =>
        ((res.ret = "true") # (NotEqualOfCall.ret = "true"))

\* C6, amended: when the comparison raises no fault exactly one of Equal and
\* NotEqual returns true (values that differ: Equal false, NotEqual true);
\* when it faults both return false, each with one diff error report.
C6_ComplementUnlessFault ==
    call.op = "Equal" =>
        /\ ~IsPanic(CallCmp) => ((res.ret = "true") # (NotEqualOfCall.ret = "true"))
        /\ CallCmp = "ne" => (res.ret = "false" /\ NotEqualOfCall.ret = "true")
        /\ IsPanic(CallCmp) =>
              /\ res.ret = "false" /\ NotEqualOfCall.ret = "false"
              /\ res.errs = <<Msg(<<"diff error:", CallCmp>>, <<>>)>>
              /\ NotEqualOfCall.errs = res.errs

\* Equal(1, 2) under a registered always-equal comparer: Equal true,
\* NotEqual false
C6_Witness ==
    /\ call.op = "Equal"
    /\ call.got = One /\ call.want = Two
    /\ RegisteredOnly("cmpTrue")
    /\ call.opts = <<>>
    /\ res.ret = "true"
    /\ NotEqualOfCall.ret = "false"

\* C7: ContainsAll with got = S and want = S succeeds for any finite
\* sequence S, the empty one included: true, no report.
C7_ContainsAllReflexive ==
    (call.op = "SliceContainsAllOf" /\ call.got.k = "slice"
        /\ call.want = call.got /\ call.opts = <<>>) =>
        (Returned /\ res.ret = "true" /\ res.errs = <<>>)

\* ------------------------------------------------------------------------
\* Multiset containment, stated without the matching algorithm
\* ------------------------------------------------------------------------
\* per-call option lists under which ints are compared by an equivalence:
\* plain equality, or the always-equal comparer
EquivalenceOpts == {<<>>, <<"cmpTrue">>}

Eqv(opts, a, b) == CmpOutcome(a, b, opts) = "eq"

CountEqv(opts, seq, w) == Cardinality({i \in 1..Len(seq) : Eqv(opts, seq[i], w)})

\* the positions of want left unmatched: the j-th wanted element is the n-th
\* of its class in want, and got holds fewer than n of the class
Unmatched(opts, got, want) ==
    {j \in 1..Len(want) :
        CountEqv(opts, SubSeq(want, 1, j), want[j]) > CountEqv(opts, got, want[j])}

\* the elements of seq at the positions idx, in order
Pick(seq, idx) ==
    [n \in 1..Cardinality(idx) |->
        seq[CHOOSE j \in idx : Cardinality({i \in idx : i <= j}) = n]]

Count(seq, v) == Cardinality({i \in 1..Len(seq) : seq[i] = v})
Max0(n) == IF n > 0 THEN n ELSE 0

\* C8: for a non-empty want compared by an equivalence, ContainsAll succeeds
\* iff want is a multiset-subset of got; a failure reports, in want order,
\* exactly the wanted elements left unmatched, each value as often as want
\* holds it more than got does.
C8_ContainsAllIsMultisetSubset ==
    (call.op = "SliceContainsAllOf" /\ call.got.k = "slice"
        /\ call.want.k = "slice" /\ Len(call.want.elems) > 0
        /\ call.opts \in EquivalenceOpts) =>
        LET g == call.got.elems
            w == call.want.elems
            u == Unmatched(call.opts, g, w)
        IN  /\ (res.ret = "true") <=> (u = {})
            /\ (u # {} /\ call.src # "unreadable") => res.ret = "false"
            /\ res.ret = "false" =>
                  /\ res.errs = <<formatDiff(getArg(call.src), "does not contain: ",
                                             Pick(w, u))>>
                  /\ call.opts = <<>> =>
                        \A v \in Elems :
                            Count(res.errs[1].vals, v) = Max0(Count(w, v) - Count(g, v))

\* got = [A], want = [A, A]: one missing A
C8_Witness ==
    /\ call.op = "SliceContainsAllOf"
    /\ call.got = SliceV(<<One>>)
    /\ call.want = SliceV(<<One, One>>)
    /\ call.opts = <<>>
    /\ res.ret = "false"
    /\ res.errs[1].vals = <<One>>

\* the comparison of the i-th element of got with want under the per-call
\* options merged with the registered defaults
MergedCmp(i) == CmpOutcome(call.got.elems[i], call.want, call.opts \o defaultOpts)

\* C9: Contains over a sequence succeeds iff some element, at any position,
\* equals want under the per-call options merged with the defaults;
\* otherwise it reports want as not contained and returns false.
C9_ContainsIffSomeElementEqual ==
    (call.op = "Contains" /\ call.got.k = "slice" /\ call.src # "unreadable"
        /\ \A i \in 1..Len(call.got.elems) : ~IsPanic(MergedCmp(i))) =>
        IF \E i \in 1..Len(call.got.elems) : MergedCmp(i) = "eq"
        THEN res.ret = "true" /\ res.errs = <<>>
        ELSE /\ res.ret = "false"
             /\ res.errs = <<formatDiff(getArg(call.src), "does not contain: ",
                                        <<call.want>>)>>

\* the per-call comparer panics, and the call evaluates it on two ints
FaultingRuleEvaluated ==
    /\ call.opts = <<"cmpPanic">>
    /\ registered = <<>>
    /\ call.src = "found"
    /\ \/ call.op \in {"Equal", "NotEqual"} /\ call.got.k = "int" /\ call.want.k = "int"
       \/ call.op = "Contains" /\ call.got.k = "slice" /\ Len(call.got.elems) > 0
             /\ call.want.k = "int"
       \/ call.op = "SliceContainsAllOf" /\ call.got.k = "slice" /\ call.want.k = "slice"
             /\ Len(call.got.elems) > 0 /\ Len(call.want.elems) > 0

\* C10: a comparison rule that faults while Equal, NotEqual, Contains or
\* ContainsAll evaluates it never leaves the call: the call makes one
\* "diff error" report carrying the fault and returns false.
C10_FaultBecomesDiffError ==
    FaultingRuleEvaluated =>
        /\ Returned
        /\ res.ret = "false"
        /\ res.errs = <<Msg(<<"diff error:", "panic: comparer">>, <<>>)>>

\* C11: Contains with a string got and a want that is not a string returns
\* false after exactly one Error report, and no panic leaves the call.
C11_StringGotOtherWantReported ==
    (call.op = "Contains" /\ call.got.k = "string" /\ call.want.k # "string") =>
        /\ Returned
        /\ res.ret = "false"
        /\ Len(res.errs) = 1
        /\ res.fatals = <<>>

\* the Error report `<label> has unsupported type for <operation>: "<kind>"`
UnsupportedTypeReport(operation, v) ==
    Msg(WithLabel(getArg(call.src), " ",
                  <<"has unsupported type for " \o operation \o ": ", v.k>>), <<>>)

\* the first argument of the call that is not a sequence
Offending == IF call.got.k # "slice" THEN call.got ELSE call.want

\* C12: Contains with a got that is neither a string nor a sequence (a nil
\* got included), and SliceContainsAllOf with a got or a want that is not a
\* sequence, return false after exactly one Error report
\* `<label> has unsupported type for <operation>: "<kind>"` naming the kind of
\* the offending argument.
C12_UnsupportedTypeReported ==
    /\ (call.op = "Contains" /\ call.got.k \notin {"string", "slice"}) =>
            /\ Returned
            /\ res.ret = "false"
            /\ res.errs = <<UnsupportedTypeReport("Contains", call.got)>>
            /\ res.fatals = <<>>
    /\ (call.op = "SliceContainsAllOf"
            /\ (call.got.k # "slice" \/ call.want.k # "slice")) =>
            /\ Returned
            /\ res.ret = "false"
            /\ \E name \in {"SliceContainsAllOf", "ContainsAll"} :
                    res.errs = <<UnsupportedTypeReport(name, Offending)>>
            /\ res.fatals = <<>>

\* C13: an assertion that returns true has not run the label resolver: the
\* caller's source file is opened, read and parsed only on a failing call.
C13_NoResolutionOnSuccess ==
    (call.op \in BoolOps /\ Returned /\ res.ret = "true") => ~res.resolved

\* the last call made again with the same arguments and defaults, the
\* caller's source file being in condition src
Rerun(src) ==
    CASE call.op = "Equal" -> Equal(src, call.got, call.want, call.opts, defaultOpts)
      [] call.op = "NotEqual" -> NotEqual(src, call.got, call.want, call.opts, defaultOpts)
      [] call.op = "JSONEqual" -> JSONEqual(src, call.got, call.want, call.opts, defaultOpts)
      [] call.op = "JSONPath" ->
            JSONPath(call.got, call.path, call.want, call.opts, defaultOpts)
      [] call.op = "Contains" -> Contains(src, call.got, call.want, call.opts, defaultOpts)
      [] call.op = "SliceContainsAllOf" ->
            SliceContainsAllOf(src, call.got, call.want, call.opts, defaultOpts)
      [] call.op = "True" -> True(src, call.got, defaultOpts)
      [] call.op = "False" -> False(src, call.got, defaultOpts)
      [] call.op = "Match" -> Match(src, call.got, call.want)
      [] call.op = "ErrorContains" -> ErrorContains(src, call.got, call.want)
      [] call.op = "Nil" -> Nil(src, call.got, defaultOpts)
      [] call.op = "NotNil" -> NotNil(src, call.got)
      [] call.op = "Empty" -> Empty(src, call.got)
      [] call.op = "NotEmpty" -> NotEmpty(src, call.got)

\* C14: the truth value an assertion returns does not depend on the label
\* resolution: made again with the same arguments while the resolution
\* succeeds, yields the empty label or faults, the call returns the same
\* boolean.
C14_TruthValueIndependentOfLabel ==
    (call.op \in BoolOps /\ Returned) =>
        \A src \in Sources :
            /\ Rerun(src).panic = ""
            /\ Rerun(src).ret = res.ret

\* C15: a failing assertion called from a source file that cannot be opened,
\* read or parsed behaves as with an empty label: it returns false after the
\* one report it makes when the label is empty, and no panic leaves the call.
C15_UnreadableSourceIsEmptyLabel ==
    (call.op \in BoolOps /\ call.src = "unreadable"
        /\ Rerun("notfound").ret = "false") =>
        /\ Returned
        /\ res.ret = "false"
        /\ res.errs = Rerun("notfound").errs
        /\ res.fatals = <<>>

\* the operations that compare got with a wanted value through assertEqual
\* under the label of getArg
EqualityOps == {"Equal", "JSONEqual", "True", "False", "Nil"}

\* the call made an equality failure report: the comparison found a
\* difference, without a fault of the comparison or of the label resolver
EqualityFailure ==
    /\ call.op \in EqualityOps
    /\ Returned /\ res.ret = "false"
    /\ res.errs[1].text[1] # "diff error:"

\* C16: an equality failure message is `<label> (-got +want): <diff>`, the
\* diff without its surrounding whitespace; with an empty label it starts
\* with `(-got +want): `, without label and without leading space.
C16_EqualityFailureMessage ==
    EqualityFailure =>
        /\ Len(res.errs) = 1
        /\ res.errs[1].text =
                IF call.src = "found"
                THEN <<ExprText, " ", "(-got +want): ", "<diff>">>
                ELSE <<"(-got +want): ", "<diff>">>

\* Equal(t, 1, 2) on a line where no label is found
C16_Witness ==
    /\ call.op = "Equal" /\ call.src = "notfound"
    /\ call.got = IntV(1) /\ call.want = IntV(2)
    /\ call.opts = <<>> /\ registered = <<>>
    /\ res.errs = <<Msg(<<"(-got +want): ", "<diff>">>, <<IntV(1), IntV(2)>>)>>

JSONOps == {"JSONEqual", "JSONPath"}

\* the arguments the call normalized without a panic of toJSON
Normalized == {v \in {call.got, call.want} : toJSON(v) # JSONPanic}

\* a string beginning with `{` or `[`, which toJSON takes for raw JSON
LooksRaw(v) == v.k = "string" /\ Len(v.s) > 0 /\ v.s[1] \in {"{", "["}

\* C17 as stated: for every value that toJSON normalizes without a panic,
\* normalizing the result again gives the same value.
C17_toJSONIdempotent ==
    call.op \in JSONOps =>
        \A v \in Normalized : toJSON(toJSON(v)) = toJSON(v)

\* C17, amended: for every value that toJSON normalizes without a panic to a
\* result other than a string beginning with `{` or `[`, normalizing the
\* result again gives the same value.
C17_toJSONIdempotentUnlessRawLooking ==
    call.op \in JSONOps =>
        \A v \in Normalized : ~LooksRaw(toJSON(v)) => toJSON(toJSON(v)) = toJSON(v)

\* a struct and a JSON text normalized to the same map, which normalizes to
\* itself
C17_Witness ==
    /\ call.op = "JSONEqual"
    /\ call.got = IDStruct(1) /\ call.want = StrV(RawIDObject)
    /\ toJSON(call.got) = IDMap(FloatV(1))
    /\ toJSON(call.want) = IDMap(FloatV(1))
    /\ toJSON(toJSON(call.got)) = IDMap(FloatV(1))
    /\ res.ret = "true"

\* the path of the call with the root marker in front
RootedPath == IF call.path[1] = "$." THEN call.path ELSE <<"$.">> \o call.path

\* the key the path of the call names
PathKey == call.path[Len(call.path)]

C18_WitnessMismatch ==
    /\ call.op = "JSONPath"
    /\ call.got = IDStruct(1) /\ call.path = <<"id">> /\ call.want = IntV(2)
    /\ call.opts = <<>> /\ registered = <<>>
    /\ res.errs = <<Msg(<<"$.id", " ", "(-got +want): ", "<diff>">>,
                        <<FloatV(1), FloatV(2)>>)>>

\* the null value, or a channel, function, map, pointer or slice without
\* referent
NilValue(v) ==
    \/ v = NilV
    \/ v \in {ChanV(TRUE, 0), FuncV(TRUE), NilMapV, NilPtrV, NilSliceV}

\* C19: Nil(t, v) returns true exactly when v is the null value or a channel,
\* function, map, pointer or slice holding no referent, and false for every
\* other value, zero-valued scalars included; and for every v exactly one of
\* Nil(t, v) and NotNil(t, v) returns true.
C19_NilExactlyOnNilValues ==
    call.op \in {"Nil", "NotNil"} =>
        /\ call.op = "Nil" =>
                /\ Returned
                /\ res.ret = (IF NilValue(call.got) THEN "true" ELSE "false")
        /\ (Nil(call.src, call.got, defaultOpts).ret = "true")
                # (NotNil(call.src, call.got).ret = "true")
        /\ call.op = "NotNil" => (res.ret = "true" <=> ~NilValue(call.got))

\* Nil(t, 0): false for a zero-valued scalar, for which NotNil returns true
C19_Witness ==
    /\ call.op = "Nil" /\ call.got = IntV(0)
    /\ res.ret = "false"
    /\ NotNil(call.src, call.got).ret = "true"

\* Nil(t, (*T)(nil)): true for a pointer without referent
C19_WitnessNilPointer ==
    /\ call.op = "Nil" /\ call.got = NilPtrV
    /\ res.ret = "true"
    /\ NotNil(call.src, call.got).ret # "true"

\* the length of a slice, map, string or channel, -1 for a value of another
\* kind
Length(v) ==
    CASE v.k = "slice"  -> Len(v.elems)
      [] v.k = "string" -> Len(v.s)
      [] v.k = "map"    -> Cardinality(DOMAIN v.f)
      [] v.k = "chan"   -> v.len
      [] OTHER          -> -1

\* empty as the claim defines it: nil, of length zero, or a pointer to an
\* empty value
RECURSIVE ClaimedEmpty(_)
ClaimedEmpty(v) ==
    \/ NilValue(v)
    \/ Length(v) = 0
    \/ v.k = "ptr" /\ ~v.nilp /\ ClaimedEmpty(v.elem)

\* the zero values of the kinds without length: 0, false, 0.0, a struct with
\* zero-valued fields
ZeroValues == {IntV(0), BoolV(FALSE), FloatV(0), EmptyStruct, IDStruct(0)}

\* empty as above, the zero values included
RECURSIVE EmptyOrZero(_)
EmptyOrZero(v) ==
    \/ NilValue(v)
    \/ Length(v) = 0
    \/ v \in ZeroValues
    \/ v.k = "ptr" /\ ~v.nilp /\ EmptyOrZero(v.elem)

\* what Nil, Empty and NotEmpty return for a non-nil pointer and for a value
\* with elements
C20_Particulars ==
    /\ (call.op = "Nil" /\ call.got.k = "ptr" /\ ~call.got.nilp) => res.ret = "false"
    /\ (call.op = "Empty" /\ Length(call.got) > 0) => res.ret # "true"
    /\ (call.op = "NotEmpty" /\ Length(call.got) > 0) => res.ret = "true"

RECURSIVE ChainEnds(_)
ChainEnds(v) ==
    \/ v.k # "ptr"
    \/ v.nilp
    \/ v.elem.k # "self" /\ ChainEnds(v.elem)

C21_NotEqualMessage ==
    (call.op = "NotEqual" /\ call.src = "found"
        /\ CmpOutcome(call.got, call.want, call.opts \o defaultOpts) = "eq") =>
        /\ Returned
        /\ res.ret = "false"
        /\ res.errs = <<Msg(<<ExprText, " ", "should not equal ", "<value>">>,
                            <<call.want>>)>>
        /\ res.fatals = <<>>

\* ------------------------------------------------------------------------
\* Greedy first-fit, stated on the positions of got
\* ------------------------------------------------------------------------
\* After the first j wanted elements: the positions of got consumed so far and
\* the wanted elements left without one. The j-th wanted element takes the
\* least position not yet consumed whose element equals it.
RECURSIVE Greedy(_, _, _, _)
Greedy(got, want, opts, j) ==
    IF j = 0 THEN [used |-> {}, missing |-> <<>>]
    ELSE LET prev == Greedy(got, want, opts, j - 1)
             cand == {i \in (1..Len(got)) \ prev.used : Eqv(opts, got[i], want[j])}
         IN  IF cand = {}
             THEN [used |-> prev.used, missing |-> Append(prev.missing, want[j])]
             ELSE [used |-> prev.used \cup {CHOOSE i \in cand : \A k \in cand : i <= k},
                   missing |-> prev.missing]

\* every wanted element can be given an equal element of got of its own
FullMatchingExists(got, want, opts) ==
    \E a \in [1..Len(want) -> 1..Len(got)] :
        /\ \A j, k \in 1..Len(want) : j # k => a[j] # a[k]
        /\ \A j \in 1..Len(want) : Eqv(opts, got[a[j]], want[j])

\* C22: SliceContainsAllOf gives the outcome of greedy first-fit: wanted
\* elements are taken in order, each consumes the leftmost element of got not
\* yet consumed that equals it or else joins the missing list, and no earlier
\* choice is revisited, also when another assignment would match every
\* wanted element.
C22_GreedyFirstFit ==
    (call.op = "SliceContainsAllOf" /\ call.got.k = "slice" /\ call.want.k = "slice"
        /\ Len(call.want.elems) > 0
        /\ \A i \in 1..Len(call.got.elems), j \in 1..Len(call.want.elems) :
                ~IsPanic(CmpOutcome(call.got.elems[i], call.want.elems[j], call.opts))) =>
        LET gr == Greedy(call.got.elems, call.want.elems, call.opts,
                         Len(call.want.elems))
        IN  /\ (res.ret = "true") <=> (gr.missing = <<>>)
            /\ gr.missing = <<>> => res.errs = <<>>
            /\ (gr.missing # <<>> /\ call.src # "unreadable") =>
                    /\ res.ret = "false"
                    /\ res.errs = <<formatDiff(getArg(call.src), "does not contain: ",
                                               gr.missing)>>

\* the rule: A = 2 equals X = 3 and Y = 1, B = 3 equals X only;
\* got = [X, Y], want = [A, B] is reported as missing B
C22_Witness ==
    /\ call.op = "SliceContainsAllOf"
    /\ call.got = SliceV(<<IntV(3), IntV(1)>>)
    /\ call.want = SliceV(<<IntV(2), IntV(3)>>)
    /\ call.opts = <<"cmpNear">>
    /\ FullMatchingExists(call.got.elems, call.want.elems, call.opts)
    /\ res.ret = "false"
    /\ res.errs[1].vals = <<IntV(3)>>

\* every goroutine that called RegisterOptions has returned from it
AllReturned == \A t \in Threads : ~InProgress(t)

\* C23: RegisterOptions calls that do not overlap keep every registration, in
\* call order; a registration can be lost only when two calls overlap (and
\* then there is an interleaving that loses one: C23_Witness).
C23_LostOnlyWhenOverlapping ==
    (AllReturned /\ ~overlap) => defaultOpts = InitialDefaultOpts \o registered

\* two overlapping calls have returned and the list holds the options of the
\* second alone
C23_Witness ==
    /\ thr["t1"].pc = "done" /\ thr["t2"].pc = "done"
    /\ overlap
    /\ thr["t1"].opts = <<"cmpTrue">> /\ thr["t2"].opts = <<"cmpFalse">>
    /\ defaultOpts = InitialDefaultOpts \o <<"cmpFalse">>

\* C24: in a Contains call over a slice every element comparison and the
\* final diff are given the same option list: the per-call options followed
\* by one copy of the registered defaults, whatever the index of the element
\* and the length of got, the empty got included.
C24_ContainsOneOptionList ==
    (call.op = "Contains" /\ call.got.k = "slice" /\ call.src # "unreadable") =>
        /\ Len(res.used) > 0
        /\ \A n \in 1..Len(res.used) : res.used[n] = call.opts \o defaultOpts

\* C25: Contains and SliceContainsAllOf leave the caller's got and want as
\* they were, in length, order and content, whether the call succeeds, fails
\* or panics: the removal of matched elements works on a copy of got.
C25_ArgumentsUnchanged ==
    call.op \in {"Contains", "SliceContainsAllOf"} =>
        res.after = <<call.got, call.want>>

\* SliceContainsAllOf(t, [1, 2], [1, 2]): the first match removes an element
\* from the copy, and got is still [1, 2]
C25_Witness ==
    /\ call.op = "SliceContainsAllOf"
    /\ call.got = SliceV(<<IntV(1), IntV(2)>>)
    /\ call.want = SliceV(<<IntV(1), IntV(2)>>)
    /\ call.opts = <<>>
    /\ res.ret = "true"
    /\ sliceContainsAllOf(call.got.elems, call.want.elems, <<>>, call.opts).arr
            = <<IntV(2), IntV(2)>>
    /\ res.after[1] = call.got

\* C26: the emptiness check ends for every value, a pointer chain that leads
\* back to itself included: the recursion of isEmpty does not outgrow the
\* stack, and Empty and NotEmpty called from a readable source return.
C26_EmptinessCheckTerminates ==
    call.op \in {"Empty", "NotEmpty"} =>
        /\ res.panic # "fatal error: stack overflow"
        /\ call.src # "unreadable" => Returned

====
